---- MODULE Spec2Model ----
(***************************************************************************)
(* Model of the Timeline visual (src/src/visual.ts): the data-to-layout    *)
(* pipeline run by Visual.update on every data or settings change.         *)
(*                                                                         *)
(* Dates are kept at day resolution.  A JavaScript value of type           *)
(* "Date | null" is a record [k, y, m, d]: k = "date" is a valid Date      *)
(* (m is the 0-based month of getMonth()), k = "invalid" is a Date whose   *)
(* time value is NaN, k = "null" is null and k = "undefined" is a local    *)
(* that was never assigned.  Every comparison with NaN is false, as in     *)
(* JavaScript.  Years are four-digit years.                                *)
(***************************************************************************)
EXTENDS Integers, Sequences, FiniteSets, TLC

VARIABLES
    columns,          \* options.dataViews[0].table.columns: the roles of each column
    roleIndex,        \* the column index CONVERTER found for each role, or -1
    rows,             \* options.dataViews[0].table.rows of the last update call,
                      \* each row as the record of its cells by role
    handles,          \* the row indexes of the selection ids the last call
                      \* requested from the host, in the order of the requests
    settings,         \* this.settings: [layout, PreviousYear, FutureYear]
    currentYear,      \* new Date().getFullYear(), the host clock
    capped,           \* local timelineData after the slice of line 123
    timelineData,     \* local timelineData when update returned or threw
    minDate,          \* local minDate when update returned or threw
    maxDate,          \* local maxDate when update returned or threw
    colorDataByYear,  \* this.colorDataByYear
    xScale,           \* this.xScale (domain and tick granularity)
    xAxisLine,        \* this.svg holds the ".x-axis-line" group of the axis
    viewport,         \* options.viewport of the last update call: [width, height]
    header,           \* this.header: its class "header" and the src of its images
    footer,           \* this.footer: its class "footer" and the src of its images
    lines,            \* the "line" elements of this.svg, in data order
    boxes,            \* the ".box" groups of this.svg, in data order
    tooltip,          \* the inner HTML of this.tooltip
    outcome,          \* "constructed", "finished" or "threw"
    threwAt,          \* the step whose TypeError ended the call, or "none"
    second,           \* the visual of the second implementation: its working
                      \* set, window, year-colour table, axis, lines and boxes
    signals           \* events.renderingStarted / renderingFinished of the last call

vars == << columns, roleIndex, rows, handles, settings, currentYear, capped,
           timelineData, minDate, maxDate, colorDataByYear, xScale, xAxisLine,
           viewport, header, footer, lines, boxes, tooltip, outcome, threwAt,
           second, signals >>

----------------------------------------------------------------------------
(* Bounds of the model *)

\* a table has at most MaxColumns columns
MaxColumns == 3

\* short tables hold at most MaxRows rows
MaxRows == 2

\* long tables hold at most SliceLimit + MaxExcess rows
MaxExcess == 1

----------------------------------------------------------------------------
(* Dates *)

MkDate(y, m, d) == [k |-> "date", y |-> y, m |-> m, d |-> d]

NullDate == [k |-> "null", y |-> 0, m |-> 0, d |-> 0]

InvalidDate == [k |-> "invalid", y |-> 0, m |-> 0, d |-> 0]

UndefinedDate == [k |-> "undefined", y |-> 0, m |-> 0, d |-> 0]

IsValid(dt) == dt.k = "date"

\* new Date(year, monthIndex, 1): monthIndex outside 0..11 carries into the
\* year; a NaN argument gives an Invalid Date.  yearOk is FALSE for NaN.
DateCtor(yearOk, y, m) ==
    IF yearOk THEN MkDate(y + (m \div 12), m % 12, 1) ELSE InvalidDate

\* a.getTime() < b.getTime() for two valid dates
DateLT(a, b) ==
    \/ a.y < b.y
    \/ a.y = b.y /\ a.m < b.m
    \/ a.y = b.y /\ a.m = b.m /\ a.d < b.d

DateLE(a, b) == a = b \/ DateLT(a, b)

IsLeap(y) == (y % 4 = 0 /\ y % 100 # 0) \/ y % 400 = 0

DaysBeforeMonth(y, m) ==
    LET cum == << 0, 31, 59, 90, 120, 151, 181, 212, 243, 273, 304, 334 >>
    IN  cum[m + 1] + (IF m >= 2 /\ IsLeap(y) THEN 1 ELSE 0)

\* getTime() of a valid date, in days
DayNumber(dt) ==
    LET p == dt.y - 1
    IN  365 * p + (p \div 4) - (p \div 100) + (p \div 400)
        + DaysBeforeMonth(dt.y, dt.m) + dt.d

----------------------------------------------------------------------------
(* Table columns and their roles *)

\* the roles in the order of the if / else-if chain of CONVERTER
RoleNames ==
    << "Company", "Type", "Description", "CompanyLink", "Date",
       "HeaderImage", "FooterImage" >>

RoleSet == { RoleNames[k] : k \in 1..Len(RoleNames) }

\* var _companyIndex = -1, _companylinkIndex = -1, ...
NoIndexes == [r \in RoleSet |-> -1]

\* the branch of the chain taken for a column with the roles col: the first
\* role of the chain that the column has, or "none"
BranchOf(col) ==
    IF \E k \in 1..Len(RoleNames) : RoleNames[k] \in col
    THEN RoleNames[CHOOSE k \in 1..Len(RoleNames) :
                      /\ RoleNames[k] \in col
                      /\ \A j \in 1..(k - 1) : RoleNames[j] \notin col]
    ELSE "none"

\* mutant of AssignIndex: an index that is already set is kept
AssignIndexOnce(idx, col, ti) ==
    IF BranchOf(col) = "none" \/ idx[BranchOf(col)] # -1
    THEN idx
    ELSE [idx EXCEPT ![BranchOf(col)] = ti]

\* one pass of the loop body for column ti: the branch taken overwrites the
\* index of its role
AssignIndex(idx, col, ti) ==
    IF BranchOf(col) = "none" THEN idx ELSE [idx EXCEPT ![BranchOf(col)] = ti]

RECURSIVE ColumnLoop(_, _, _)
\* for (var ti = 0; ti < _columns.length; ti++) { ... }
ColumnLoop(cols, ti, idx) ==
    IF ti >= Len(cols) THEN idx
    ELSE ColumnLoop(cols, ti + 1, AssignIndex(idx, cols[ti + 1], ti))

\* the role indexes after the column loop of CONVERTER
ColumnIndexes(cols) == ColumnLoop(cols, 0, NoIndexes)

----------------------------------------------------------------------------
(* Table rows and extraction *)

NullCell == "<null>"

\* text of a date cell: "date" cells hold a parsable date with a 1-based month
DateText(y, mm, dd) == [txt |-> "date", y |-> y, mm |-> mm, dd |-> dd]

GarbageText == [txt |-> "garbage", y |-> 0, mm |-> 0, dd |-> 0]

NullText == [txt |-> "null", y |-> 0, mm |-> 0, dd |-> 0]

\* a row by role: the cells row[_companyIndex], row[_typeIndex],
\* row[_descIndex], row[_companylinkIndex] and row[_dateIndex]; the table
\* has no image columns
TextRow(company, type, description, link, dateCell) ==
    [Company |-> company, Type |-> type, Description |-> description,
     CompanyLink |-> link, Date |-> dateCell,
     HeaderImage |-> NullCell, FooterImage |-> NullCell]

\* a row of a table that has the columns Company, Date, HeaderImage and
\* FooterImage
ImageRow(company, dateCell, headerImage, footerImage) ==
    [Company |-> company, Type |-> NullCell, Description |-> NullCell,
     CompanyLink |-> NullCell, Date |-> dateCell,
     HeaderImage |-> headerImage, FooterImage |-> footerImage]

\* a row of a table that has a Company and a Date column only
Row(company, dateCell) == TextRow(company, NullCell, NullCell, NullCell, dateCell)

\* row[_dateIndex] ? new Date(Date.parse(row[_dateIndex].toString())) : null
ParseDateCell(c) ==
    CASE c.txt = "null"    -> NullDate
      [] c.txt = "garbage" -> InvalidDate
      [] OTHER             -> MkDate(c.y, c.mm - 1, c.dd)

\* the rows whose Company cell is null or undefined
RowsWithoutCompany(rs) == { i \in 1..Len(rs) : rs[i].Company = NullCell }

\* mutant of SelectionIdOf: every row gets the selection id of row 0
SelectionIdOfFirst(i) == 0

\* host.createSelectionIdBuilder().withTable(tableView, i).createSelectionId()
\* for the 0-based row index i: a selection id is known by the row it names
SelectionIdOf(i) == i

\* the selection ids requested for the first n rows, in the order of the
\* requests
HandlesRequested(n) == [i \in 1..n |-> SelectionIdOf(i - 1)]

\* the loop of CONVERTER: row[_companyIndex].toString() throws a TypeError on
\* the first row whose Company cell is null or undefined, before the handle
\* of that row is requested; handles are the handles requested from the host
CONVERTER(rs) ==
    IF RowsWithoutCompany(rs) # {}
    THEN [threw   |-> TRUE,
          data    |-> << >>,
          handles |-> HandlesRequested(
                        (CHOOSE i \in RowsWithoutCompany(rs) :
                            \A j \in RowsWithoutCompany(rs) : i <= j) - 1)]
    ELSE [threw   |-> FALSE,
          data    |-> [i \in 1..Len(rs) |->
                         [Company     |-> rs[i].Company,
                          Type        |-> IF rs[i].Type = NullCell
                                          THEN "" ELSE rs[i].Type,
                          Description |-> rs[i].Description,
                          CompanyLink |-> rs[i].CompanyLink,
                          Date        |-> ParseDateCell(rs[i].Date),
                          HeaderImage |-> rs[i].HeaderImage,
                          FooterImage |-> rs[i].FooterImage,
                          selectionId |-> SelectionIdOf(i - 1)]],
          handles |-> HandlesRequested(Len(rs))]

SliceLimit == 100

\* timelineData.slice(0, 100)
Slice(s) == SubSeq(s, 1, IF Len(s) < SliceLimit THEN Len(s) ELSE SliceLimit)

----------------------------------------------------------------------------
(* Date window *)

\* d.Date.getFullYear() >= minDate.getFullYear()
YearGE(dt, bound) == IsValid(dt) /\ IsValid(bound) /\ dt.y >= bound.y

\* d.Date.getFullYear() <= maxDate.getFullYear()
YearLE(dt, bound) == IsValid(dt) /\ IsValid(bound) /\ dt.y <= bound.y

\* mutant of FilterFrom: the lower bound is not applied
FilterFromKeepsAll(td, lo) == td

\* timelineData.map(d => keep(d) ? d : undefined).filter(e => e) keeps the
\* accepted events in their order
FilterFrom(td, lo) == SelectSeq(td, LAMBDA e : YearGE(e.Date, lo))

FilterUpTo(td, hi) == SelectSeq(td, LAMBDA e : YearLE(e.Date, hi))

CandidateMin(now, st) == DateCtor(TRUE, now - st.PreviousYear, 0)

CandidateMax(now, st) == DateCtor(TRUE, now + st.FutureYear, 0)

\* the time values passed to Math.min / Math.max
DatesOf(td) == { td[i].Date : i \in 1..Len(td) }

\* new Date(Math.min.apply(null, timelineData.map(d => d.Date))): Infinity
\* for no argument and NaN when an argument is NaN both give an Invalid Date
MathMinDate(td) ==
    IF td = << >> \/ \E d \in DatesOf(td) : ~IsValid(d)
    THEN InvalidDate
    ELSE CHOOSE d \in DatesOf(td) : \A e \in DatesOf(td) : DateLE(d, e)

\* new Date(Math.max.apply(null, timelineData.map(d => d.Date)))
MathMaxDate(td) ==
    IF td = << >> \/ \E d \in DatesOf(td) : ~IsValid(d)
    THEN InvalidDate
    ELSE CHOOSE d \in DatesOf(td) : \A e \in DatesOf(td) : DateLE(e, d)

\* new Date(minDate.getFullYear(), 0, 1)
FallbackMin(td) ==
    LET m == MathMinDate(td) IN DateCtor(IsValid(m), m.y, 0)

\* mutant of FallbackMax: the greatest date is not moved to a January 1
FallbackMaxAsIs(td) == MathMaxDate(td)

\* new Date(maxDate.getFullYear() + 1, 0, 1)
FallbackMax(td) ==
    LET m == MathMaxDate(td) IN DateCtor(IsValid(m), m.y + 1, 0)

----------------------------------------------------------------------------
(* Year colours *)

colors ==
    << "#242B47", "#D5792E", "#8EB40E", "#597DAB", "#5AC1C4", "#595959",
       "#154360", "#0B5345", "#784212", "#424949", "#17202A", "#E74C3C",
       "#00ff00", "#0000ff", "#252D48" >>

\* colors[i] for a 0-based i; an index past the end of the array is undefined
ColorAt(i) == IF i < Len(colors) THEN colors[i + 1] ELSE "undefined"

\* mutant of getColorDataByYear: this.colorDataByYear is not emptied first
getColorDataByYearKept(lo, hi) ==
    colorDataByYear \o
        (IF IsValid(lo) /\ IsValid(hi) /\ lo.y <= hi.y + 1
         THEN [n \in 1..(hi.y + 2 - lo.y) |->
                  [year |-> lo.y + n - 1, color |-> ColorAt(n - 1)]]
         ELSE << >>)

\* this.colorDataByYear = [];
\* for (year = minDate.getFullYear(), i = 0; year <= maxDate.getFullYear() + 1; year++)
\*     push({year, color: colors[i++]});   (NaN <= NaN is false: no entry)
getColorDataByYear(lo, hi) ==
    IF IsValid(lo) /\ IsValid(hi) /\ lo.y <= hi.y + 1
    THEN [n \in 1..(hi.y + 2 - lo.y) |->
             [year |-> lo.y + n - 1, color |-> ColorAt(n - 1)]]
    ELSE << >>

\* colorDataByYear.find(c => c.year === d.getFullYear()) finds an entry
HasColorData(cdby, dt) ==
    IsValid(dt) /\ \E n \in 1..Len(cdby) : cdby[n].year = dt.y

\* colorData.color of the entry found (the years of the table are distinct)
ColorOfYear(cdby, y) ==
    cdby[CHOOSE n \in 1..Len(cdby) : cdby[n].year = y].color

----------------------------------------------------------------------------
(* Axis *)

\* mutant of diff_years: the quotient is truncated, not rounded
diff_yearsTruncated(dt2, dt1) ==
    LET diff == DayNumber(dt2) - DayNumber(dt1)
        a    == IF diff < 0 THEN -diff ELSE diff
    IN  (4 * a) \div 1461

\* Math.abs(Math.round(days / 365.25)) for two valid dates; Math.round
\* rounds a half up: round(x) = floor(x + 1/2)
diff_years(dt2, dt1) ==
    LET diff == DayNumber(dt2) - DayNumber(dt1)
        r    == (8 * diff + 1461) \div 2922
    IN  IF r < 0 THEN -r ELSE r

UnsetScale == [set |-> FALSE, lo |-> UndefinedDate, hi |-> UndefinedDate,
               granularity |-> "none"]

\* mutant of renderXandYAxis: the monthly domain is the window itself
renderXandYAxisUnexpanded(lo, hi) ==
    IF IsValid(lo) /\ IsValid(hi) /\ diff_years(lo, hi) <= 1
    THEN [set |-> TRUE, lo |-> lo, hi |-> hi, granularity |-> "month"]
    ELSE [set |-> TRUE, lo |-> lo, hi |-> hi, granularity |-> "year"]

\* the d3.scaleTime() that renderXandYAxis stores in this.xScale; with an
\* Invalid Date diff_years is NaN and NaN <= 1 is false
renderXandYAxis(lo, hi) ==
    IF IsValid(lo) /\ IsValid(hi) /\ diff_years(lo, hi) <= 1
    THEN [set |-> TRUE,
          lo  |-> DateCtor(TRUE, lo.y, lo.m - 1),
          hi  |-> DateCtor(TRUE, hi.y, hi.m + 1),
          granularity |-> "month"]
    ELSE [set |-> TRUE, lo |-> lo, hi |-> hi, granularity |-> "year"]

\* this.margin = { top: 50, right: 40, bottom: 50, left: 40 }
margin == [top |-> 50, right |-> 40, bottom |-> 50, left |-> 40]

\* the height taken from the viewport for a header or a footer
HeaderFooterHeight == 105

\* gHeight: vpHeight - this.margin.top - this.margin.bottom, where vpHeight
\* is the viewport height less 105 for the layouts Header and Footer
PlotHeight(vp, st) ==
    (IF st.layout \in { "header", "footer" }
     THEN vp.height - HeaderFooterHeight ELSE vp.height)
        - margin.top - margin.bottom

\* gWidth: vpWidth - this.margin.left - this.margin.right
PlotWidth(vp) == vp.width - margin.left - margin.right

\* the ends of the domain of this.yScale
YDomainLow == -105

YDomainHigh == 105

\* this.yScale(v) in units of 1/210 pixel: d3.scaleLinear() with the domain
\* [-105, 105] and the range [gHeight, this.margin.top]
yScale210(gHeight, v) ==
    (YDomainHigh - YDomainLow) * gHeight
        + (v - YDomainLow) * (margin.top - gHeight)

\* the domain of a scale as the scale keeps it: the getTime() of its ends, in
\* days, and whether both are numbers
DomainOf(scale) ==
    IF IsValid(scale.lo) /\ IsValid(scale.hi)
    THEN [valid |-> TRUE, t0 |-> DayNumber(scale.lo), t1 |-> DayNumber(scale.hi)]
    ELSE [valid |-> FALSE, t0 |-> 0, t1 |-> 0]

\* the scale of the domain dom applied to dt
xScaleAt(dom, dt) ==
    IF dom.valid /\ IsValid(dt)
    THEN [nan |-> FALSE, num |-> DayNumber(dt) - dom.t0, den |-> dom.t1 - dom.t0]
    ELSE [nan |-> TRUE, num |-> 0, den |-> 1]

\* this.xScale(dt): NaN for an Invalid Date and for a domain with an Invalid
\* Date, else the point at num / den of the way from range[0] = margin.left
\* to range[1] = gWidth (below 0 or above 1 for a date outside the domain)
xScaleOf(scale, dt) == xScaleAt(DomainOf(scale), dt)

\* a pixel x: NaN, the number 0, or the point at num / den of the range
\* plus a fixed offset
NaNX == [kind |-> "NaN", num |-> 0, den |-> 1, plus |-> 0]

ZeroX == [kind |-> "zero", num |-> 0, den |-> 1, plus |-> 0]

\* xScale(dt) + offset for the scale of the domain dom
PixelOf(dom, dt, offset) ==
    IF dom.valid /\ IsValid(dt)
    THEN [kind |-> "scaled", num |-> DayNumber(dt) - dom.t0,
          den |-> dom.t1 - dom.t0, plus |-> offset]
    ELSE NaNX

----------------------------------------------------------------------------
(* Lanes *)

FarNegative == -100

NearNegative == -60

NearPositive == 40

FarPositive == 90

\* mutant of LaneOf: Math.floor in place of Math.ceil
LaneOfFloor(i) ==
    IF i % 2 = 0
    THEN IF (i \div 2) % 2 = 0 THEN FarNegative ELSE NearNegative
    ELSE IF (i \div 2) % 2 = 0 THEN FarPositive ELSE NearPositive

\* mutant of LaneOf: the near and far lanes below the axis are exchanged
LaneOfSwapped(i) ==
    IF i % 2 = 0
    THEN IF (i \div 2) % 2 = 0 THEN NearNegative ELSE FarNegative
    ELSE IF ((i + 1) \div 2) % 2 = 0 THEN FarPositive ELSE NearPositive

\* mutant of LaneOf: the count of the pair is not looked at
LaneOfParityOnly(i) == IF i % 2 = 0 THEN FarNegative ELSE FarPositive

\* the argument of yScale in the transform of renderBox, for 0-based index i
LaneOf(i) ==
    IF i % 2 = 0
    THEN LET count == i \div 2
         IN  IF count % 2 = 0 THEN FarNegative ELSE NearNegative
    ELSE LET count == (i + 1) \div 2
         IN  IF count % 2 = 0 THEN FarPositive ELSE NearPositive

----------------------------------------------------------------------------
(* Free text on the rendering surfaces *)

\* texts with markup that sanitize-html removes
ScriptText == "<script>alert(1)</script>Acme"

HandlerText == "<img src=x onerror=alert(1)>Ltd"

\* texts that sanitize-html leaves as they are
BoldText == "<b>Phase 3</b>"

SchemeText == "javascript:alert(1)"

\* sanitizeHtml(dirty) of the sanitize-html library with its default
\* options: a script element goes with its content, a tag that is not
\* allowed goes and its text stays, an allowed tag and plain text stay;
\* null gives the empty string
sanitizeHtml(dirty) ==
    CASE dirty = NullCell    -> ""
      [] dirty = ScriptText  -> "Acme"
      [] dirty = HandlerText -> "Ltd"
      [] OTHER               -> dirty

\* '' + (+ s): the unary plus makes a number of the string
PlusOf(s) == IF s = "" THEN "0" ELSE "NaN"

\* the title attribute of a box: sanitizeHtml(d.Description) + '(' + d.Date + ')'
BoxTitle(d) == [description |-> sanitizeHtml(d.Description), date |-> d.Date]

\* mutant of BoxHtml: the description goes into the callout as it is
BoxHtmlRawDescription(d) ==
    [href        |-> sanitizeHtml(d.CompanyLink),
     company     |-> IF d.Company # "" THEN sanitizeHtml(d.Company) ELSE "",
     description |-> d.Description]

\* the html of the foreignObject of a box, by the field each part comes from:
\* <div><div><a href="href" ...>company</a></div>description</div>
BoxHtml(d) ==
    [href        |-> sanitizeHtml(d.CompanyLink),
     company     |-> IF d.Company # "" THEN sanitizeHtml(d.Company) ELSE "",
     description |-> sanitizeHtml(d.Description)]

\* this.tooltip before the first mousemove, and html = ''
EmptyTooltip == [date |-> UndefinedDate, company |-> "", description |-> ""]

\* the html the mousemove handler builds for the event d
TooltipHtml(d) ==
    CASE d.Type \in { "Regulatory", "Commercial" } ->
            [date        |-> d.Date,
             company     |-> sanitizeHtml(d.Company),
             description |-> sanitizeHtml(d.Description)]
      [] d.Type \in { "Clinical Trials", "Launch" } ->
            [date        |-> d.Date,
             company     |-> sanitizeHtml(d.Company),
             description |-> PlusOf(sanitizeHtml(d.Description))]
      [] OTHER -> EmptyTooltip

\* the ".box" groups appended by renderBox, one per event, in data order:
\* translate(xScale(d.Date) - 25, yScale(lane)), the circle's fill, the title
\* and the html
renderBox(td, cdby, scale, gHeight) ==
  CHOOSE bs \in {
    [n \in 1..Len(td) |->
        [lane        |-> LaneOf(n - 1),
         x           |-> PixelOf(dom, td[n].Date, -25),
         y           |-> yScale210(gHeight, LaneOf(n - 1)),
         color       |-> ColorOfYear(cdby, td[n].Date.y),
         title       |-> BoxTitle(td[n]),
         html        |-> BoxHtml(td[n]),
         selectionId |-> td[n].selectionId]] :
    dom \in { DomainOf(scale) } } : TRUE

----------------------------------------------------------------------------
(* Header and footer *)

\* a well-formed data URL of an image
PngDataUrl == "data:image/png;base64,iVBORw0KGgo="

\* texts that are not data URLs
WebUrl == "https://example.com/logo.png"

BrokenDataUrl == "data:image/png;base64"

\* validDataUrl(s) of the valid-data-url library: the regular expression of
\* a data URL tested on (s || ''), so that null is not accepted
validDataUrl(s) ==
    CASE s = NullCell   -> FALSE
      [] s = PngDataUrl -> TRUE
      [] OTHER          -> FALSE

\* mutant of ImageSource: the cell is the source as it is
ImageSourceUnchecked(url) == url

\* validDataUrl(url) ? url : ""
ImageSource(url) == IF validDataUrl(url) THEN url ELSE ""

\* a container without the class and without images: the div appended by
\* the constructor, and the container after the clean-up that update starts
\* with
EmptyContainer == [classed |-> FALSE, imgs |-> << >>]

\* The container of renderHeaderAndFooter for a layout that names it:
\* attr("class", ...) and append("img") run before the argument of
\* attr("src", ...) is evaluated, so that for an empty working set (timeline
\* is undefined and timeline.HeaderImage throws a TypeError) the container
\* has the class and an image without a src.
ContainerOf(td, field) ==
    [classed |-> TRUE,
     imgs    |-> IF td = << >> THEN << "unset" >>
                 ELSE << ImageSource(td[1][field]) >>]

\* this.header and this.footer after renderHeaderAndFooter(td)
renderHeaderAndFooter(td, layout) ==
    [header |-> IF layout = "header"
                THEN ContainerOf(td, "HeaderImage") ELSE EmptyContainer,
     footer |-> IF layout = "footer"
                THEN ContainerOf(td, "FooterImage") ELSE EmptyContainer]

----------------------------------------------------------------------------
(* Connector lines *)

\* the argument of yScale for y1: the end of the line at the axis
LineNearOf(i) == IF i % 2 = 0 THEN -10 ELSE 10

\* mutant of LineLaneOf: the far end is at the near lane on both sides
LineLaneOfNear(i) == IF i % 2 = 0 THEN -60 ELSE 40

\* the argument of yScale for y2, for 0-based index i
LineLaneOf(i) ==
    IF i % 2 = 0
    THEN LET count == i \div 2
         IN  IF count % 2 = 0 THEN -100 ELSE -60
    ELSE LET count == (i + 1) \div 2
         IN  IF count % 2 = 0 THEN 90 ELSE 40

\* isNaN(xScale(d.Date)) ? 0 : xScale(d.Date) + 20, for the scale of the
\* domain dom
LineX(dom, dt) ==
    IF xScaleAt(dom, dt).nan THEN ZeroX ELSE PixelOf(dom, dt, 20)

\* the 1-based index of the first event of td without an entry in the
\* year-colour table, Len(td) + 1 when every event has one
FirstWithoutColor(td, cdby) ==
    IF \A i \in 1..Len(td) : HasColorData(cdby, td[i].Date) THEN Len(td) + 1
    ELSE CHOOSE i \in 1..Len(td) :
            /\ ~HasColorData(cdby, td[i].Date)
            /\ \A j \in 1..(i - 1) : HasColorData(cdby, td[j].Date)

\* The "line" elements appended by renderTimeRangeLines, one per event, in
\* data order.  Each attr and style call goes through all lines in turn:
\* x1, y1, x2 and y2 are set on every line before the stroke is; the stroke
\* of the first event without an entry in the year-colour table throws a
\* TypeError, and the lines from that one on are left without a stroke.
renderTimeRangeLines(td, cdby, scale, gHeight) ==
    CHOOSE ls \in
        { [n \in 1..Len(td) |->
            [x1     |-> LineX(dom, td[n].Date),
             y1     |-> LineNearOf(n - 1),
             x2     |-> LineX(dom, td[n].Date),
             y2     |-> LineLaneOf(n - 1),
             py2    |-> yScale210(gHeight, LineLaneOf(n - 1)),
             stroke |-> IF n < stop THEN ColorOfYear(cdby, td[n].Date.y)
                        ELSE "unset"]] :
          stop \in { FirstWithoutColor(td, cdby) },
          dom \in { DomainOf(scale) } } : TRUE

----------------------------------------------------------------------------
(* Visual.update *)

Layouts == { "none", "header", "footer" }

\* The whole of update(options) for the table rows dv, the settings st and
\* the viewport vp.
\* A TypeError leaves what the call had assigned so far and skips the rest:
\* the fields written by the steps not reached keep their previous value.
\* Each "\E x \in { e }" names the value of a local of the method: data is
\* timelineData after line 123, local is timelineLocalData, working is
\* timelineData after line 136, lo and hi are minDate and maxDate at line 143.
updateOptions(dv, st, vp) ==
    \E conv \in { CONVERTER(dv) } :
    \E data \in { Slice(conv.data) } :
    \E candMin \in { CandidateMin(currentYear, st) } :
    \E candMax \in { CandidateMax(currentYear, st) } :
    \E local \in { IF Len(data) > 0
                   THEN FilterUpTo(FilterFrom(data, candMin), candMax)
                   ELSE << >> } :
    \E working \in { IF Len(local) > 0 THEN local ELSE data } :
    \E lo \in { IF Len(local) > 0 THEN candMin ELSE FallbackMin(data) } :
    \E hi \in { IF Len(local) > 0 THEN candMax ELSE FallbackMax(data) } :
    \E cdby \in { getColorDataByYear(lo, hi) } :
    \E scale \in { renderXandYAxis(lo, hi) } :
    \E gHeight \in { PlotHeight(vp, st) } :
    LET \* line 130: d.Date.getFullYear() on an event whose Date is null
        nullDate  == \E i \in 1..Len(data) : data[i].Date = NullDate
        \* renderHeaderAndFooter: timeline.HeaderImage with timeline undefined
        noFirst   == st.layout \in { "header", "footer" } /\ working = << >>
        \* renderTimeRangeLines: colorData.color with colorData undefined
        noColor   == \E i \in 1..Len(working) : ~HasColorData(cdby, working[i].Date)
    IN  /\ UNCHANGED columns
        /\ roleIndex' = ColumnIndexes(columns)
        /\ rows' = dv
        /\ handles' = conv.handles
        /\ settings' = st
        /\ UNCHANGED currentYear
        /\ capped' = data
        /\ UNCHANGED tooltip
        /\ xAxisLine' = ~(conv.threw \/ nullDate \/ noFirst)
        /\ viewport' = vp
        /\ header' = IF conv.threw \/ nullDate THEN EmptyContainer
                     ELSE renderHeaderAndFooter(working, st.layout).header
        /\ footer' = IF conv.threw \/ nullDate THEN EmptyContainer
                     ELSE renderHeaderAndFooter(working, st.layout).footer
        /\ lines' = IF conv.threw \/ nullDate \/ noFirst
                    THEN << >>
                    ELSE renderTimeRangeLines(working, cdby, scale, gHeight)
        /\ boxes' = IF conv.threw \/ nullDate \/ noFirst \/ noColor
                    THEN << >> ELSE renderBox(working, cdby, scale, gHeight)
        /\ CASE conv.threw ->
                  /\ threwAt' = "CONVERTER"
                  /\ timelineData' = << >>
                  /\ minDate' = UndefinedDate
                  /\ maxDate' = UndefinedDate
                  /\ UNCHANGED << colorDataByYear, xScale >>
             [] ~conv.threw /\ nullDate ->
                  /\ threwAt' = "filter"
                  /\ timelineData' = data
                  /\ minDate' = candMin
                  /\ maxDate' = UndefinedDate
                  /\ UNCHANGED << colorDataByYear, xScale >>
             [] ~conv.threw /\ ~nullDate /\ noFirst ->
                  /\ threwAt' = "renderHeaderAndFooter"
                  /\ timelineData' = working
                  /\ minDate' = lo
                  /\ maxDate' = hi
                  /\ colorDataByYear' = cdby
                  /\ UNCHANGED xScale
             [] ~conv.threw /\ ~nullDate /\ ~noFirst /\ noColor ->
                  /\ threwAt' = "renderTimeRangeLines"
                  /\ timelineData' = working
                  /\ minDate' = lo
                  /\ maxDate' = hi
                  /\ colorDataByYear' = cdby
                  /\ xScale' = scale
             [] OTHER ->
                  /\ threwAt' = "none"
                  /\ timelineData' = working
                  /\ minDate' = lo
                  /\ maxDate' = hi
                  /\ colorDataByYear' = cdby
                  /\ xScale' = scale
        /\ outcome' = IF threwAt' = "none" THEN "finished" ELSE "threw"
        /\ signals' = IF threwAt' = "none"
                      THEN << "renderingStarted", "renderingFinished" >>
                      ELSE << "renderingStarted" >>

\* update(options) for a viewport that has not changed
update(dv, st) == updateOptions(dv, st, viewport) /\ UNCHANGED second

----------------------------------------------------------------------------
(* The second implementation, lines 621-1169 *)

\* CONVERTER of the second implementation: no CompanyLink
CONVERTER2(rs) ==
    IF RowsWithoutCompany(rs) # {}
    THEN [threw |-> TRUE, data |-> << >>]
    ELSE [threw |-> FALSE,
          data  |-> [i \in 1..Len(rs) |->
                       [Company     |-> rs[i].Company,
                        Type        |-> IF rs[i].Type = NullCell
                                        THEN "" ELSE rs[i].Type,
                        Description |-> rs[i].Description,
                        Date        |-> ParseDateCell(rs[i].Date),
                        HeaderImage |-> rs[i].HeaderImage,
                        FooterImage |-> rs[i].FooterImage,
                        selectionId |-> SelectionIdOf(i - 1)]]]

\* mutant of CandidateMin2: the window starts with the current year
CandidateMin2ThisYear(now) == DateCtor(TRUE, now, 0)

\* new Date(currentDate.getFullYear() - 1, 0, 1)
CandidateMin2(now) == DateCtor(TRUE, now - 1, 0)

\* new Date(currentDate.getFullYear() + 8, 0, 1)
CandidateMax2(now) == DateCtor(TRUE, now + 8, 0)

\* the argument of yScale in the transform of the second renderBox
LaneOf2(i) ==
    IF i % 2 = 0
    THEN LET count == i \div 2
         IN  IF count % 2 = 0 THEN -100 ELSE -60
    ELSE LET count == (i + 1) \div 2
         IN  IF count % 2 = 0 THEN 90 ELSE 40

\* the ".box" groups of the second renderBox: the transform, the circle's
\* fill, the title and the text
renderBox2(td, cdby, scale, gHeight) ==
  CHOOSE bs \in {
    [n \in 1..Len(td) |->
        [lane  |-> LaneOf2(n - 1),
         x     |-> PixelOf(dom, td[n].Date, -25),
         y     |-> yScale210(gHeight, LaneOf2(n - 1)),
         color |-> ColorOfYear(cdby, td[n].Date.y),
         title |-> BoxTitle(td[n]),
         text  |-> sanitizeHtml(td[n].Description)]] :
    dom \in { DomainOf(scale) } } : TRUE

\* the second visual before its first update call
Constructed2 ==
    [threwAt |-> "none", timelineData |-> << >>, minDate |-> UndefinedDate,
     maxDate |-> UndefinedDate, colorDataByYear |-> << >>,
     xScale |-> UnsetScale, lines |-> << >>, boxes |-> << >>]

\* The whole of update(options) of the second implementation for the table
\* rows dv, the settings st and the viewport vp: the display years of the
\* settings are not read.
update2(dv, st, vp) ==
    \E conv \in { CONVERTER2(dv) } :
    \E data \in { Slice(conv.data) } :
    \E candMin \in { CandidateMin2(currentYear) } :
    \E candMax \in { CandidateMax2(currentYear) } :
    \E local \in { IF Len(data) > 0
                   THEN FilterUpTo(FilterFrom(data, candMin), candMax)
                   ELSE << >> } :
    \E working \in { IF Len(local) > 0 THEN local ELSE data } :
    \E lo \in { IF Len(local) > 0 THEN candMin ELSE FallbackMin(data) } :
    \E hi \in { IF Len(local) > 0 THEN candMax ELSE FallbackMax(data) } :
    \E cdby \in { getColorDataByYear(lo, hi) } :
    \E scale \in { renderXandYAxis(lo, hi) } :
    \E gHeight \in { PlotHeight(vp, st) } :
    LET nullDate  == \E i \in 1..Len(data) : data[i].Date = NullDate
        noFirst   == st.layout \in { "header", "footer" } /\ working = << >>
        noColor   == \E i \in 1..Len(working) : ~HasColorData(cdby, working[i].Date)
    IN  second' =
          CASE conv.threw ->
                 [Constructed2 EXCEPT
                    !.threwAt = "CONVERTER",
                    !.colorDataByYear = second.colorDataByYear,
                    !.xScale = second.xScale]
            [] ~conv.threw /\ nullDate ->
                 [Constructed2 EXCEPT
                    !.threwAt = "filter",
                    !.timelineData = data,
                    !.minDate = candMin,
                    !.colorDataByYear = second.colorDataByYear,
                    !.xScale = second.xScale]
            [] ~conv.threw /\ ~nullDate /\ noFirst ->
                 [Constructed2 EXCEPT
                    !.threwAt = "renderHeaderAndFooter",
                    !.timelineData = working,
                    !.minDate = lo,
                    !.maxDate = hi,
                    !.colorDataByYear = cdby,
                    !.xScale = second.xScale]
            [] ~conv.threw /\ ~nullDate /\ ~noFirst /\ noColor ->
                 [threwAt |-> "renderTimeRangeLines", timelineData |-> working,
                  minDate |-> lo, maxDate |-> hi, colorDataByYear |-> cdby,
                  xScale |-> scale,
                  lines |-> renderTimeRangeLines(working, cdby, scale, gHeight),
                  boxes |-> << >>]
            [] OTHER ->
                 [threwAt |-> "none", timelineData |-> working,
                  minDate |-> lo, maxDate |-> hi, colorDataByYear |-> cdby,
                  xScale |-> scale,
                  lines |-> renderTimeRangeLines(working, cdby, scale, gHeight),
                  boxes |-> renderBox2(working, cdby, scale, gHeight)]

----------------------------------------------------------------------------
(* The host: it calls update whenever the data or the settings change *)

ClockYears == { 2024 }

CompanyCells == { "Acme" }

DateCells ==
    { DateText(2021, 11, 1), DateText(2022, 3, 1), DateText(2023, 7, 15),
      DateText(2038, 7, 1), GarbageText, NullText }

\* the rows the host may add to the table
RowChoices ==
    { Row(c, d) : c \in CompanyCells, d \in DateCells }
        \cup { Row(NullCell, DateText(2023, 7, 15)) }

\* the rows the host may add to a table of SliceLimit - 1 rows or more
LongRowChoices ==
    { Row("Acme", DateText(2038, 7, 1)), Row("Acme", GarbageText),
      Row(NullCell, DateText(2023, 7, 15)) }

PreviousYearChoices == { 0, 1 }

FutureYearChoices == { 0, 8, 14 }

SettingsChoices ==
    [layout : Layouts, PreviousYear : PreviousYearChoices,
     FutureYear : FutureYearChoices]

\* a table of SliceLimit - 1 equal rows
BulkTable == [i \in 1..(SliceLimit - 1) |-> Row("Acme", DateText(2023, 7, 15))]

\* the three events of the scenario of the specification
ScenarioTable ==
    << Row("Acme", DateText(2022, 3, 1)), Row("Acme", DateText(2023, 7, 15)),
       Row("Acme", DateText(2021, 11, 1)) >>

\* the tables the host may load at once
TableChoices == { BulkTable, ScenarioTable }

\* the fields in the wells of the visual: a Company and a Date column
StandardColumns == << { "Company" }, { "Date" } >>

\* the roles a column of the table may have
ColumnChoices ==
    { { "Company" }, { "Date" }, { "Company", "Date" }, { "Description" },
      { "CompanyLink" }, { "Type" } }

\* the column lists of at most MaxColumns columns
ColumnLayouts == UNION { [1..n -> ColumnChoices] : n \in 0..MaxColumns }

\* the size of the visual on the report page
StandardViewport == [width |-> 800, height |-> 600]

\* the sizes the visual may be given
ViewportChoices ==
    { [width |-> 800, height |-> h] : h \in { 120, 150, 151, 255, 256, 600 } }

\* the settings of a visual whose format pane was never touched
DefaultSettings == [layout |-> "none", PreviousYear |-> 1, FutureYear |-> 8]

Init ==
    /\ columns = StandardColumns
    /\ roleIndex = NoIndexes
    /\ rows = << >>
    /\ handles = << >>
    /\ settings = DefaultSettings
    /\ currentYear \in ClockYears
    /\ capped = << >>
    /\ timelineData = << >>
    /\ minDate = UndefinedDate
    /\ maxDate = UndefinedDate
    /\ colorDataByYear = << >>
    /\ xScale = UnsetScale
    /\ xAxisLine = FALSE
    /\ viewport = StandardViewport
    /\ second = Constructed2
    /\ header = EmptyContainer
    /\ footer = EmptyContainer
    /\ lines = << >>
    /\ boxes = << >>
    /\ tooltip = EmptyTooltip
    /\ outcome = "constructed"
    /\ threwAt = "none"
    /\ signals = << >>

\* a row is added to the table
HostAppendRow(r) ==
    /\ \/ Len(rows) < MaxRows
       \/ /\ Len(rows) >= SliceLimit - 1
          /\ Len(rows) < SliceLimit + MaxExcess
          /\ r \in LongRowChoices
    /\ \E dv \in { Append(rows, r) } : update(dv, settings)

\* the table is emptied
HostClearRows ==
    /\ rows # << >>
    /\ update(<< >>, settings)

\* the table is replaced by another one; a long table is given to a visual
\* that has no rows
HostLoadTable(t) ==
    /\ t # rows
    /\ Len(t) < SliceLimit - 1 \/ rows = << >>
    /\ update(t, settings)

\* a setting of the format pane is changed
HostChangeSettings(st) ==
    /\ st # settings
    /\ update(rows, st)

\* the visual is resized
HostResize(vp) ==
    /\ vp # viewport
    /\ updateOptions(rows, settings, vp)
    /\ UNCHANGED second

Next ==
    \/ \E r \in RowChoices : HostAppendRow(r)
    \/ HostClearRows
    \/ \E t \in TableChoices : HostLoadTable(t)
    \/ \E st \in SettingsChoices : HostChangeSettings(st)

Spec == Init /\ [][Next]_vars

\* A visual whose wells hold any columns and whose table has no row yet: the
\* host calls update on every change of the settings.
InitColumns ==
    /\ columns \in ColumnLayouts
    /\ roleIndex = NoIndexes
    /\ rows = << >>
    /\ handles = << >>
    /\ settings = DefaultSettings
    /\ currentYear \in ClockYears
    /\ capped = << >>
    /\ timelineData = << >>
    /\ minDate = UndefinedDate
    /\ maxDate = UndefinedDate
    /\ colorDataByYear = << >>
    /\ xScale = UnsetScale
    /\ xAxisLine = FALSE
    /\ viewport = StandardViewport
    /\ second = Constructed2
    /\ header = EmptyContainer
    /\ footer = EmptyContainer
    /\ lines = << >>
    /\ boxes = << >>
    /\ tooltip = EmptyTooltip
    /\ outcome = "constructed"
    /\ threwAt = "none"
    /\ signals = << >>

NextColumns == \E st \in SettingsChoices : HostChangeSettings(st)

SpecColumns == InitColumns /\ [][NextColumns]_vars

TypeCells == { "Regulatory", "Launch", NullCell }

DescriptionCells == { NullCell, HandlerText, BoldText }

LinkCells == { NullCell, SchemeText, ScriptText }

\* the tables of one row with free text in its Company, Description and
\* CompanyLink cells
TextTables ==
    { << TextRow(c, t, d, l, DateText(2023, 7, 15)) >> :
        c \in { "Acme", ScriptText }, t \in TypeCells,
        d \in DescriptionCells, l \in LinkCells }

\* the mousemove handler of the n-th box: the tooltip shows its event
mousemove(n) ==
    /\ n \in 1..Len(boxes)
    /\ tooltip' = TooltipHtml(timelineData[n])
    /\ UNCHANGED << columns, roleIndex, rows, handles, settings, currentYear,
                    capped, timelineData, minDate, maxDate, colorDataByYear,
                    xScale, xAxisLine, viewport, header, footer, lines, boxes,
                    outcome, threwAt, second, signals >>

\* A visual that is given tables with free text and whose boxes the user
\* moves the mouse over
NextText ==
    \/ \E t \in TextTables : HostLoadTable(t)
    \/ \E n \in 1..MaxRows : mousemove(n)

SpecText == Init /\ [][NextText]_vars

\* the cells of an image column
ImageCells == { PngDataUrl, WebUrl, BrokenDataUrl, NullCell }

\* tables with image columns: one event, two events of which the second has
\* other images than the first, and a row without a Company
ImageTables ==
    { << ImageRow("Acme", DateText(2023, 7, 15), h, f) >> :
        h \in ImageCells, f \in ImageCells }
    \cup
    { << ImageRow("Acme", DateText(2023, 7, 15), h, NullCell),
         ImageRow("Acme", DateText(2022, 3, 1), PngDataUrl, WebUrl) >> :
        h \in ImageCells }
    \cup
    { << ImageRow(NullCell, DateText(2023, 7, 15), PngDataUrl, PngDataUrl) >>,
      << ImageRow("Acme", NullText, PngDataUrl, PngDataUrl) >> }

\* A visual given tables with image columns and other layouts
NextImages ==
    \/ \E t \in ImageTables : HostLoadTable(t)
    \/ \E st \in SettingsChoices : HostChangeSettings(st)
    \/ HostClearRows

SpecImages == Init /\ [][NextImages]_vars

\* the tables given to the two implementations
TwinTables ==
    TableChoices \cup { << r >> : r \in RowChoices }
        \cup { << Row("Acme", DateText(2021, 11, 1)), r >> : r \in RowChoices }

\* both implementations are given the table t
TwinLoadTable(t) ==
    /\ t # rows
    /\ updateOptions(t, settings, viewport)
    /\ update2(t, settings, viewport)

\* both implementations are given the settings st
TwinChangeSettings(st) ==
    /\ st # settings
    /\ updateOptions(rows, st, viewport)
    /\ update2(rows, st, viewport)

\* Two visuals on one page, one of each implementation, fed with the same
\* table and the same settings under the same clock
NextTwin ==
    \/ \E t \in TwinTables : TwinLoadTable(t)
    \/ \E st \in SettingsChoices : TwinChangeSettings(st)

SpecTwin == Init /\ [][NextTwin]_vars

\* A visual that is resized, given a table and other settings
NextViewport ==
    \/ \E vp \in ViewportChoices : HostResize(vp)
    \/ \E t \in TableChoices : HostLoadTable(t)
    \/ \E st \in SettingsChoices : HostChangeSettings(st)

SpecViewport == Init /\ [][NextViewport]_vars

----------------------------------------------------------------------------
(* Properties *)

\* update has been called at least once
Called == outcome # "constructed"

\* the call got past CONVERTER: there is an extracted, capped event sequence
Extracted == Called /\ threwAt # "CONVERTER"

\* the call got to the render steps that follow the window selection
ReachedRender == Extracted /\ threwAt # "filter"

Jan1(y) == MkDate(y, 0, 1)

CandidateLow == currentYear - settings.PreviousYear

CandidateHigh == currentYear + settings.FutureYear

\* the event has a year and it lies in the configured candidate range
InCandidateYears(e) ==
    IsValid(e.Date) /\ CandidateLow <= e.Date.y /\ e.Date.y <= CandidateHigh

\* the years of the events of the capped sequence that have one
EventYears == { capped[i].Date.y : i \in { j \in 1..Len(capped) : IsValid(capped[j].Date) } }

LeastOf(S) == CHOOSE y \in S : \A z \in S : y <= z

GreatestOf(S) == CHOOSE y \in S : \A z \in S : z <= y

LanesOfBoxes == [i \in 1..Len(boxes) |-> boxes[i].lane]

\* min(n, 100) for the n rows of the table
CapOf(n) == IF n < 100 THEN n ELSE 100

(* C1: after an update call on a table of n rows, the capped sequence is the
   events of the first min(n, 100) rows in their order, whatever the rows
   after the 100th hold: it is so as soon as each of the first min(n, 100)
   rows has a Company value. *)
C1_CappedPrefix ==
    (Called /\ \A i \in 1..CapOf(Len(rows)) : rows[i].Company # NullCell) =>
        /\ Extracted
        /\ Len(capped) = CapOf(Len(rows))
        /\ \A i \in 1..Len(capped) :
              /\ capped[i].selectionId = i - 1
              /\ capped[i].Company = rows[i].Company
              /\ capped[i].Date = ParseDateCell(rows[i].Date)

(* C2: when the capped sequence is not empty and one of its events has its
   year in the candidate range, the window is Jan 1 of the two candidate
   years and the working set is the events with a year in that range, in
   order. *)
C2_CandidateWindow ==
    (Extracted /\ \E i \in 1..Len(capped) : InCandidateYears(capped[i])) =>
        /\ minDate = Jan1(CandidateLow)
        /\ maxDate = Jan1(CandidateHigh)
        /\ timelineData = SelectSeq(capped, InCandidateYears)

(* C3: when the capped sequence is not empty and none of its events has its
   year in the candidate range, the working set is the whole capped sequence
   and the window runs from Jan 1 of the least event year to Jan 1 of the
   year after the greatest event year. *)
C3_FallbackWindow ==
    (Extracted /\ capped # << >>
       /\ \A i \in 1..Len(capped) : ~InCandidateYears(capped[i])) =>
        /\ timelineData = capped
        /\ EventYears # {} =>
              /\ minDate = Jan1(LeastOf(EventYears))
              /\ maxDate = Jan1(GreatestOf(EventYears) + 1)

(* C4 as stated: the lanes of the boxes at indices 0..7 are FarNegative,
   FarPositive, NearNegative, NearPositive, twice. *)
C4_LaneSequenceAsStated ==
    \A i \in 1..Len(boxes) :
        i <= 8 =>
            boxes[i].lane = << -100, 90, -60, 40, -100, 90, -60, 40 >>[i]

(* C4 amended: the lanes of the boxes at indices 0..7 are FarNegative,
   NearPositive, NearNegative, FarPositive, twice. *)
C4_LaneSequence ==
    \A i \in 1..Len(boxes) :
        i <= 8 =>
            boxes[i].lane = << -100, 40, -60, 90, -100, 40, -60, 90 >>[i]

C4_Witness == outcome = "finished" /\ Len(boxes) >= 8

(* C5: the box at an even index i is FarNegative when i/2 is even and
   NearNegative otherwise; the box at an odd index i is FarPositive when
   ceil(i/2) is even and NearPositive otherwise. *)
C5_LaneRule ==
    \A n \in 1..Len(boxes) :
        LET i     == n - 1
            half  == CHOOSE c \in 0..i : 2 * c = i \/ 2 * c = i + 1
        IN  boxes[n].lane =
              (CASE i % 2 = 0 /\ half % 2 = 0 -> FarNegative
                 [] i % 2 = 0 /\ half % 2 = 1 -> NearNegative
                 [] i % 2 = 1 /\ half % 2 = 0 -> FarPositive
                 [] OTHER                     -> NearPositive)

C5_Witness ==
    /\ outcome = "finished"
    /\ { boxes[n].lane : n \in 1..Len(boxes) }
          = { FarNegative, NearNegative, NearPositive, FarPositive }

(* C6: every year from the window's first year to the year after its last
   year has an entry in the year-colour table, and the k-th of these years
   (k from 0) has the colour palette[k mod 15]. *)
C6_PaletteWraps ==
    (ReachedRender /\ IsValid(minDate) /\ IsValid(maxDate)) =>
        \A y \in minDate.y..(maxDate.y + 1) :
            \E n \in 1..Len(colorDataByYear) :
                /\ colorDataByYear[n].year = y
                /\ colorDataByYear[n].color = colors[((y - minDate.y) % 15) + 1]

(* C7: an update call with zero rows finishes without a TypeError, derives
   no window and builds no axis, whatever the layout. *)
C7_EmptyInputNoRender ==
    (Called /\ rows = << >>) =>
        /\ outcome = "finished"
        /\ minDate = UndefinedDate
        /\ maxDate = UndefinedDate
        /\ ~xAxisLine

(* C8: when the capped sequence is not empty and all its events have valid
   dates, both ends of the window are January 1 of a year and
   minDate <= maxDate. *)
C8_WindowNormalised ==
    (Extracted /\ capped # << >>
       /\ \A i \in 1..Len(capped) : IsValid(capped[i].Date)) =>
        /\ IsValid(minDate) /\ minDate.m = 0 /\ minDate.d = 1
        /\ IsValid(maxDate) /\ maxDate.m = 0 /\ maxDate.d = 1
        /\ DateLE(minDate, maxDate)

\* the data-driven window of a table whose greatest date is not a January 1
C8_Witness ==
    /\ outcome = "finished"
    /\ capped # << >>
    /\ \A i \in 1..Len(capped) : IsValid(capped[i].Date)
    /\ timelineData = capped
    /\ minDate # Jan1(CandidateLow)
    /\ \E i \in 1..Len(capped) : capped[i].Date.y + 1 = maxDate.y /\ capped[i].Date.m > 0

(* C9: when the call reaches the render steps, every event of the working
   set has a year between the window's first year and the year after its last
   year, and the year-colour table has an entry for it. *)
C9_EveryEventHasColor ==
    ReachedRender =>
        \A i \in 1..Len(timelineData) :
            /\ IsValid(timelineData[i].Date)
            /\ IsValid(minDate) /\ IsValid(maxDate)
            /\ minDate.y <= timelineData[i].Date.y
            /\ timelineData[i].Date.y <= maxDate.y + 1
            /\ HasColorData(colorDataByYear, timelineData[i].Date)

\* the scenario: the three events, yearsBack = 1, yearsForward = 8, year 2024
ScenarioCalled ==
    /\ Called
    /\ rows = ScenarioTable
    /\ settings.PreviousYear = 1
    /\ settings.FutureYear = 8
    /\ currentYear = 2024

(* C10 as stated: in the scenario the window is [2021-01-01, 2032-01-01], the
   working set is the three events in order and the lanes are FarNegative,
   FarPositive, NearNegative. *)
C10_ScenarioAsStated ==
    ScenarioCalled =>
        /\ minDate = Jan1(2021)
        /\ maxDate = Jan1(2032)
        /\ timelineData = capped
        /\ Len(timelineData) = 3
        /\ LanesOfBoxes = << FarNegative, FarPositive, NearNegative >>

(* C10 amended: in the scenario only the event of 2023-07-15 is in the
   window, the window is [2023-01-01, 2032-01-01], the working set is that
   one event and its lane is FarNegative. *)
C10_Scenario ==
    ScenarioCalled =>
        /\ outcome = "finished"
        /\ minDate = Jan1(2023)
        /\ maxDate = Jan1(2032)
        /\ Len(timelineData) = 1
        /\ timelineData[1].Date = MkDate(2023, 6, 15)
        /\ timelineData[1].selectionId = 1
        /\ LanesOfBoxes = << FarNegative >>

C10_Witness == ScenarioCalled /\ outcome = "finished" /\ Len(boxes) = 1

\* the call built the axis scale: it got past renderHeaderAndFooter
ReachedAxis == ReachedRender /\ threwAt # "renderHeaderAndFooter"

\* |a - b| in days
DaysApart(a, b) ==
    LET diff == DayNumber(a) - DayNumber(b) IN IF diff < 0 THEN -diff ELSE diff

(* C11: when the axis is built for a valid window, the ticks are monthly
   exactly when the window's length in days, divided by 365.25 and rounded,
   is at most 1, that is when it is less than 1.5 * 365.25 days, and yearly
   otherwise; for a window whose ends are both a January 1 the ticks are
   monthly exactly when maxDate's year minus minDate's year is at most 1. *)
C11_Granularity ==
    (ReachedAxis /\ IsValid(minDate) /\ IsValid(maxDate)) =>
        /\ xScale.granularity \in { "month", "year" }
        /\ xScale.granularity = "month"
              <=> 8 * DaysApart(maxDate, minDate) < 4383
        /\ (minDate.m = 0 /\ minDate.d = 1 /\ maxDate.m = 0 /\ maxDate.d = 1) =>
              (xScale.granularity = "month" <=> maxDate.y - minDate.y <= 1)

\* a window of exactly one year has monthly ticks
C11_Witness ==
    /\ ReachedAxis
    /\ IsValid(minDate) /\ IsValid(maxDate)
    /\ maxDate.y - minDate.y = 1
    /\ xScale.granularity = "month"

(* C12: extraction never throws: every update call gets past CONVERTER with
   one event for each of the first min(n, 100) rows, also for a row that has
   no Company value. *)
C12_ExtractionNeverThrows ==
    Called =>
        /\ threwAt # "CONVERTER"
        /\ Len(capped) = CapOf(Len(rows))

(* C13: an update call whose capped sequence holds an event without a valid
   date (null or unparsable) runs to its end and signals renderingFinished,
   and no such event is in the working set. *)
C13_DatelessEventSkipped ==
    (Extracted /\ \E i \in 1..Len(capped) : ~IsValid(capped[i].Date)) =>
        /\ outcome = "finished"
        /\ signals = << "renderingStarted", "renderingFinished" >>
        /\ \A i \in 1..Len(timelineData) : IsValid(timelineData[i].Date)

(* C14: the date of every extracted event is null or a valid date, never an
   Invalid Date, and it is null exactly when the Date cell of its row is
   missing or holds text that does not parse. *)
C14_DateNullOrValid ==
    Extracted =>
        \A i \in 1..Len(capped) :
            /\ capped[i].Date.k \in { "null", "date" }
            /\ capped[i].Date = NullDate
                  <=> rows[i].Date.txt \in { "null", "garbage" }

\* the 0-based indexes of the columns that carry the role r
ColumnsWith(r) == { ti \in 0..(Len(columns) - 1) : r \in columns[ti + 1] }

\* the 0-based indexes of the columns that CONVERTER counts for the role r:
\* r is the first role of the chain that the column has
ColumnsCountedFor(r) ==
    { ti \in ColumnsWith(r) :
        \A k \in 1..Len(RoleNames) :
            RoleNames[k] \in columns[ti + 1] =>
                \E j \in 1..k : RoleNames[j] = r }

(* C15 as stated: after an update call each role has one index, -1 when no
   column carries the role and else the lowest index of the columns that
   carry it. *)
C15_FirstColumnWins ==
    Called =>
        \A r \in RoleSet :
            roleIndex[r] = IF ColumnsWith(r) = {} THEN -1
                           ELSE LeastOf(ColumnsWith(r))

(* C15 amended: after an update call each role has one index; a column
   counts for the first of its roles in the order Company, Type,
   Description, CompanyLink, Date, HeaderImage, FooterImage; the index of a
   role is -1 when no column counts for it and else the highest index of
   the columns that count for it. *)
C15_LastColumnWins ==
    Called =>
        \A r \in RoleSet :
            roleIndex[r] = IF ColumnsCountedFor(r) = {} THEN -1
                           ELSE GreatestOf(ColumnsCountedFor(r))

\* two columns carry the same role and the later one is used
C15_Witness ==
    /\ Called
    /\ \E r \in RoleSet :
          /\ Cardinality(ColumnsCountedFor(r)) >= 2
          /\ roleIndex[r] # LeastOf(ColumnsCountedFor(r))

(* C16: a colour lookup for a year that has no palette colour fails with an
   error: the call throws when an event of the working set has no entry in
   the year-colour table, and no box is drawn with an undefined colour. *)
C16_NoUndefinedColor ==
    /\ (ReachedAxis /\ \E i \in 1..Len(timelineData) :
            ~HasColorData(colorDataByYear, timelineData[i].Date)) =>
          outcome = "threw"
    /\ \A n \in 1..Len(boxes) : boxes[n].color \in { colors[k] : k \in 1..Len(colors) }

\* What the first update call of a newly constructed visual computes from
\* the rows, the settings and the clock of the last call
FreshData == Slice(CONVERTER(rows).data)

FreshLocal(data) ==
    FilterUpTo(FilterFrom(data, Jan1(CandidateLow)), Jan1(CandidateHigh))

FreshWorking(data, local) == IF local # << >> THEN local ELSE data

FreshMin(data, local) ==
    IF local # << >> THEN Jan1(CandidateLow) ELSE FallbackMin(data)

FreshMax(data, local) ==
    IF local # << >> THEN Jan1(CandidateHigh) ELSE FallbackMax(data)

\* the year-colour table of a new visual for the window [lo, hi]
FreshColorTable(lo, hi) ==
    IF IsValid(lo) /\ IsValid(hi)
    THEN [n \in 1..(hi.y + 2 - lo.y) |->
             [year |-> lo.y + n - 1,
              color |-> IF n <= Len(colors) THEN colors[n] ELSE "undefined"]]
    ELSE << >>

(* C17: after any sequence of update calls, what the last call computed is
   what the first call of a new visual computes from the same rows, settings
   and clock: the capped sequence once extraction is done, the working set,
   the window and the year-colour table once the window is chosen, the axis
   scale once the axis is built, and the boxes with their lanes, colours and
   handles when the call finished; a call that threw left no box of an
   earlier call behind. *)
C17_LastCallOnly ==
    \E data \in { FreshData } :
    \E local \in { FreshLocal(data) } :
    \E working \in { FreshWorking(data, local) } :
    \E lo \in { FreshMin(data, local) } :
    \E hi \in { FreshMax(data, local) } :
    \E table \in { FreshColorTable(lo, hi) } :
        /\ Extracted => capped = data
        /\ ReachedRender =>
              /\ timelineData = working
              /\ minDate = lo
              /\ maxDate = hi
              /\ colorDataByYear = table
        /\ ReachedAxis =>
              /\ xScale.set
              /\ xScale.granularity =
                    (IF IsValid(lo) /\ IsValid(hi) /\ hi.y - lo.y <= 1
                     THEN "month" ELSE "year")
              /\ xScale.granularity = "year" => xScale.lo = lo /\ xScale.hi = hi
        /\ outcome = "finished" =>
              /\ Len(boxes) = Len(working)
              /\ \A n \in 1..Len(boxes) :
                    /\ boxes[n].selectionId = working[n].selectionId
                    /\ boxes[n].lane =
                          << FarNegative, NearPositive, NearNegative,
                             FarPositive >>[((n - 1) % 4) + 1]
                    /\ boxes[n].color = table[working[n].Date.y - lo.y + 1].color
        /\ outcome = "threw" => boxes = << >>

\* a call that finished on a visual whose call before it threw: a table of
\* two rows is made by adding a row to a table of one row, and the call for
\* a single row with an unparsable date throws in renderTimeRangeLines,
\* after it has stored a year-colour table and an axis scale
C17_Witness ==
    /\ outcome = "finished"
    /\ Len(rows) = 2
    /\ rows[1].Date = GarbageText
    /\ boxes # << >>
    /\ colorDataByYear # << >>

(* C18: the lane of a box depends on its index only: in every update call
   the box at index i + 4 has the lane of the box at index i, any four
   consecutive boxes have four distinct lanes, and a box at an index that
   also had a box before the call has the lane that box had, whatever the
   dates of the two events. *)
C18_LanePeriodFour ==
    [][ /\ \A n \in 1..Len(boxes') :
              /\ n + 4 <= Len(boxes') => boxes'[n + 4].lane = boxes'[n].lane
              /\ n + 3 <= Len(boxes') =>
                    Cardinality({ boxes'[k].lane : k \in n..(n + 3) }) = 4
        /\ \A n \in 1..Len(boxes) :
              n <= Len(boxes') => boxes'[n].lane = boxes[n].lane ]_vars

\* a hundred boxes whose last event has another date than the event four
\* places before it
C18_Witness ==
    /\ outcome = "finished"
    /\ Len(boxes) = SliceLimit
    /\ timelineData[SliceLimit].Date # timelineData[SliceLimit - 4].Date

(* C19: in every update call extraction requests one selection id for each
   row of the table, for the row indexes 0, 1, ... in order; the event of
   row i carries the id of row i, and every event of the working set and
   every box still carries the id of the row it was extracted from. *)
C19_HandlePerRow ==
    Called =>
        /\ Len(handles) = Len(rows)
        /\ \A i \in 1..Len(handles) : handles[i] = i - 1
        /\ \A i \in 1..Len(capped) : capped[i].selectionId = i - 1
        /\ \A n \in 1..Len(timelineData) :
              /\ timelineData[n].selectionId + 1 \in 1..Len(capped)
              /\ timelineData[n] = capped[timelineData[n].selectionId + 1]
        /\ \A n \in 1..Len(boxes) :
              boxes[n].selectionId = timelineData[n].selectionId

\* the texts the sanitizer gives for the cells of the model
SanitizedTexts ==
    { sanitizeHtml(t) : t \in { "Acme", ScriptText } \cup DescriptionCells \cup LinkCells }

(* C20: every text of a box title, of a box callout and of the tooltip that
   comes from the company, the description or the company link of an event
   is the sanitizer's output for that field (for the tooltip of a Launch or
   Clinical Trials event: the number made of it), never the field as it
   came from the table. *)
C20_FreeTextSanitized ==
    /\ \A n \in 1..Len(boxes) :
          /\ boxes[n].title.description = sanitizeHtml(timelineData[n].Description)
          /\ boxes[n].html.href = sanitizeHtml(timelineData[n].CompanyLink)
          /\ boxes[n].html.company = sanitizeHtml(timelineData[n].Company)
          /\ boxes[n].html.description = sanitizeHtml(timelineData[n].Description)
          /\ { boxes[n].title.description, boxes[n].html.href,
               boxes[n].html.company, boxes[n].html.description }
                \subseteq SanitizedTexts
    /\ tooltip.company \in SanitizedTexts
    /\ tooltip.description \in SanitizedTexts \cup { "0", "NaN" }
    /\ { ScriptText, HandlerText } \cap
          ({ tooltip.company, tooltip.description }
             \cup UNION { { boxes[n].title.description, boxes[n].html.href,
                            boxes[n].html.company, boxes[n].html.description } :
                          n \in 1..Len(boxes) }) = {}

\* a box whose event has markup in its company, description and link, and
\* a tooltip that shows an event with markup in its company
C20_Witness ==
    /\ outcome = "finished"
    /\ boxes # << >>
    /\ timelineData[1].Company = ScriptText
    /\ timelineData[1].Description = HandlerText
    /\ timelineData[1].CompanyLink = ScriptText
    /\ tooltip # EmptyTooltip
    /\ tooltip.company = "Acme"
    /\ tooltip.description = "Ltd"

\* the first day of the month before the month of dt
MonthBefore(dt) ==
    IF dt.m = 0 THEN MkDate(dt.y - 1, 11, 1) ELSE MkDate(dt.y, dt.m - 1, 1)

\* the first day of the month after the month of dt
MonthAfter(dt) ==
    IF dt.m = 11 THEN MkDate(dt.y + 1, 0, 1) ELSE MkDate(dt.y, dt.m + 1, 1)

(* C25: when the axis is built with monthly ticks its domain runs from the
   first day of the month before minDate to the first day of the month after
   maxDate; with yearly ticks its domain is the window [minDate, maxDate]
   itself. *)
C25_AxisDomain ==
    ReachedAxis =>
        /\ xScale.granularity = "month" =>
              /\ xScale.lo = MonthBefore(minDate)
              /\ xScale.hi = MonthAfter(maxDate)
        /\ xScale.granularity = "year" =>
              /\ xScale.lo = minDate
              /\ xScale.hi = maxDate

\* a monthly axis for a window that starts on a January 1: the domain
\* starts in the December of the year before
C25_Witness ==
    /\ ReachedAxis
    /\ xScale.granularity = "month"
    /\ minDate.m = 0
    /\ xScale.lo.m = 11
    /\ xScale.lo.y = minDate.y - 1
    /\ xScale.hi.m = 1

(* C27: every update call signals renderingStarted and then renderingFinished,
   once each, whatever the rows and the settings. *)
C27_FinishedSignalled ==
    Called => signals = << "renderingStarted", "renderingFinished" >>


\* the call got to renderTimeRangeLines: the connectors of the working set
\* were appended and positioned
ReachedLines == ReachedAxis /\ Len(lines) = Len(timelineData)

\* C23: for every event of the working set the x-coordinates of its connector
\* are never NaN: they are both 0 when the axis maps the event's date to NaN
\* and the mapped x plus the offset 20 otherwise, and update does not end in
\* an exception on an event whose mapping is NaN.
C23_NaNConnectorSurvives ==
    ReachedAxis =>
        /\ Len(lines) = Len(timelineData)
        /\ \A n \in 1..Len(lines) :
              /\ lines[n].x1.kind # "NaN" /\ lines[n].x2.kind # "NaN"
              /\ xScaleOf(xScale, timelineData[n].Date).nan =>
                    /\ lines[n].x1 = ZeroX /\ lines[n].x2 = ZeroX
                    /\ threwAt = "none"
              /\ ~xScaleOf(xScale, timelineData[n].Date).nan =>
                    /\ lines[n].x1.kind = "scaled" /\ lines[n].x1.plus = 20
                    /\ lines[n].x1.num = xScaleOf(xScale, timelineData[n].Date).num
                    /\ lines[n].x1.den = xScaleOf(xScale, timelineData[n].Date).den
                    /\ lines[n].x2 = lines[n].x1

\* C24: the connector of index i is vertical (x1 = x2), its end at the axis is
\* at the logical y -10 for an even i and +10 for an odd i, its far end is at
\* the logical and pixel y of the lane of the box of index i, and its colour
\* is the colour of the marker of that box.
C24_ConnectorGeometry ==
    /\ \A n \in 1..Len(lines) :
          /\ lines[n].x1 = lines[n].x2
          /\ lines[n].y1 = (IF (n - 1) % 2 = 0 THEN -10 ELSE 10)
          /\ lines[n].y2 = LaneOf(n - 1)
    /\ threwAt = "none" => Len(boxes) = Len(lines)
    /\ \A n \in 1..Len(boxes) :
          /\ n <= Len(lines)
          /\ lines[n].y2 = boxes[n].lane
          /\ lines[n].py2 = boxes[n].y
          /\ lines[n].stroke = boxes[n].color

\* a finished call with a connector and a box in each of the four lanes
C24_Witness ==
    /\ threwAt = "none"
    /\ Len(boxes) >= 4
    /\ { lines[n].y2 : n \in 1..4 } = { -100, -60, 40, 90 }
    /\ \A n \in 1..4 : lines[n].stroke = boxes[n].color /\ lines[n].stroke # "unset"

\* C26: after a finished call every event of the working set has its date
\* inside the domain of the axis scale: it is mapped to a point from range[0]
\* to range[1], never beyond the end of the axis.
C26_EventsInsideDomain ==
    threwAt = "none" =>
        \A n \in 1..Len(boxes) :
            /\ 0 <= boxes[n].x.num
            /\ boxes[n].x.num <= boxes[n].x.den


\* C29: for every viewport size and layout, after a finished call the box of
\* a higher lane is drawn at a strictly smaller pixel y: the boxes of odd
\* index are above the axis line, the boxes of even index below it, and on
\* each side the far lane is farther from the axis than the near lane.
C29_PositiveLanesAbove ==
    threwAt = "none" =>
        \E axis \in { yScale210(PlotHeight(viewport, settings), 0) } :
            /\ \A n \in 1..Len(boxes) :
                  IF (n - 1) % 2 = 1 THEN boxes[n].y < axis ELSE boxes[n].y > axis
            /\ \A a, b \in 1..Len(boxes) :
                  boxes[a].lane > boxes[b].lane => boxes[a].y < boxes[b].y


\* the source expected of the image of a container for the first event of
\* the working set
ExpectedSource(field) ==
    IF timelineData[1][field] = PngDataUrl THEN PngDataUrl ELSE ""

\* C22: when the working set has a first event, the update gets past
\* renderHeaderAndFooter whatever the image cells hold; with the layout
\* Header (Footer) the image of the header (footer) has as its source the
\* HeaderImage (FooterImage) of that event if validDataUrl accepts it, and
\* the empty string otherwise: a cell that is not a data URL is never the
\* source.
C22_ImageSourceValidated ==
    (ReachedRender /\ timelineData # << >>) =>
        /\ threwAt # "renderHeaderAndFooter"
        /\ settings.layout = "header" =>
              /\ header.imgs = << ExpectedSource("HeaderImage") >>
              /\ validDataUrl(timelineData[1].HeaderImage)
                    <=> header.imgs[1] = timelineData[1].HeaderImage
        /\ settings.layout = "footer" =>
              /\ footer.imgs = << ExpectedSource("FooterImage") >>
              /\ validDataUrl(timelineData[1].FooterImage)
                    <=> footer.imgs[1] = timelineData[1].FooterImage

\* a finished call with the layout Header for a first event whose HeaderImage
\* is not a data URL: the image has the empty source
C22_Witness ==
    /\ threwAt = "none"
    /\ settings.layout = "header"
    /\ timelineData # << >>
    /\ timelineData[1].HeaderImage = WebUrl
    /\ header.imgs = << "" >>

\* C28: after every update call the header and the footer hold images for
\* the layout of that call only: Header gives one image in the header, which
\* has the class header, and none in the footer, Footer the converse, and
\* None leaves both without images and without class.
C28_ContainersMatchLayout ==
    Called =>
        /\ settings.layout = "header" =>
              /\ Len(header.imgs) = 1 /\ header.classed
              /\ footer = EmptyContainer
        /\ settings.layout = "footer" =>
              /\ Len(footer.imgs) = 1 /\ footer.classed
              /\ header = EmptyContainer
        /\ settings.layout = "none" =>
              /\ header = EmptyContainer
              /\ footer = EmptyContainer


\* an event of the first implementation without its CompanyLink
WithoutLink(e) ==
    [Company |-> e.Company, Type |-> e.Type, Description |-> e.Description,
     Date |-> e.Date, HeaderImage |-> e.HeaderImage,
     FooterImage |-> e.FooterImage, selectionId |-> e.selectionId]

\* C21: for the same rows and the same clock, with yearsBack = 1 and
\* yearsForward = 8, the two implementations end at the same place and what
\* their last call computed is the same: the window and the working set, the
\* year-colour table, the domain and the granularity of the axis, the ends
\* and the colour of every connector, and the lane, the position and the
\* colour of every box.
C21_SameLayout ==
    (Called /\ settings.PreviousYear = 1 /\ settings.FutureYear = 8) =>
        /\ second.threwAt = threwAt
        /\ Extracted =>
              /\ second.minDate = minDate
              /\ second.timelineData =
                    [n \in 1..Len(timelineData) |-> WithoutLink(timelineData[n])]
        /\ ReachedRender =>
              /\ second.maxDate = maxDate
              /\ second.colorDataByYear = colorDataByYear
        /\ ReachedAxis => second.xScale = xScale
        /\ second.lines = lines
        /\ Len(second.boxes) = Len(boxes)
        /\ \A n \in 1..Len(boxes) :
              /\ second.boxes[n].lane = boxes[n].lane
              /\ second.boxes[n].x = boxes[n].x
              /\ second.boxes[n].y = boxes[n].y
              /\ second.boxes[n].color = boxes[n].color

\* both implementations finished a call with yearsBack = 1 and
\* yearsForward = 8 that left out an event before the window and drew boxes
C21_Witness ==
    /\ settings.PreviousYear = 1 /\ settings.FutureYear = 8
    /\ threwAt = "none" /\ second.threwAt = "none"
    /\ Len(second.boxes) >= 1
    /\ Len(second.timelineData) < Len(rows)
    /\ second.xScale.granularity = "year"

====
